---- MODULE Spec2Model ----
(***************************************************************************)
(* Secure file-system adapter (libs/platform secure-fs): path validation,  *)
(* p-limit concurrency limiting and the ENFILE/EMFILE retry loop.          *)
(*                                                                         *)
(* JavaScript runs every synchronous block to completion, so each action   *)
(* below is one synchronous block: a call of an exported function up to    *)
(* its first suspension, a p-limit admission microtask, the settlement of  *)
(* the awaited fs primitive, or the firing of a backoff timer.             *)
(***************************************************************************)
EXTENDS FiniteSets, Integers, Sequences, TLC

\* ------------------------------------------------------------------------
\* Bounds of the model
\* ------------------------------------------------------------------------
MaxOps == 2
JitterSteps == 2

Ops == 1..MaxOps

\* ------------------------------------------------------------------------
\* Inputs
\* ------------------------------------------------------------------------
Fields == {"maxConcurrency", "maxRetries", "baseDelay", "maxDelay"}

\* a partial configuration is an object carrying any subset of the fields;
\* inputs gives, for each field it may carry, the values a caller supplies
PartialsOver(inputs) ==
  UNION {{p \in [S -> UNION {inputs[f] : f \in S}] : \A f \in S : p[f] \in inputs[f]} :
         S \in SUBSET (DOMAIN inputs)}

\* partial configurations supplied while the limiter is under load
LimiterPartials == PartialsOver([maxConcurrency |-> {0, 1, 2}, maxRetries |-> {1}])

\* partial configurations exercising the configuration manager
ConfigPartials ==
  PartialsOver([maxConcurrency |-> {0, 2}, maxRetries |-> {5},
                baseDelay |-> {10}, maxDelay |-> {50}])

\* partial configurations retuning the retry engine
RetryPartials ==
  PartialsOver([maxRetries |-> {-1, 0, 1}, baseDelay |-> {10}, maxDelay |-> {50}])

\* partial configurations retuning the backoff delay, and the attempt
\* indices the delay is computed for
DelayPartials == PartialsOver([baseDelay |-> {-10, 0, 3, 10}, maxDelay |-> {15, 50}])
DelayAttempts == 0..4

\* partial configurations lowering the retry ceiling while errors are classified
ClassifyPartials == PartialsOver([maxRetries |-> {0, 1}])

\* the partial configuration that makes operations queue behind one another
LivePartials == {[maxConcurrency |-> 1]}

\* partial configurations saturating the limiter under the operation surface
SurfacePartials == PartialsOver([maxConcurrency |-> {1}])

\* the operations issued where the limiter is not under study
SingleOp == {1}

\* the operations issued at the operation surface: enough to fill a limiter
\* of capacity 1, queue one more behind it and then issue another
SurfaceOps == 1..(MaxOps + 1)

\* a value a caller writes into an object it holds
Scribble == 7

FILE_DESCRIPTOR_ERROR_CODES == {"ENFILE", "EMFILE"}
OtherErrors == {"ENOENT"}
Errors == FILE_DESCRIPTOR_ERROR_CODES \cup OtherErrors
\* other values a primitive may throw: an Error object without a code (its
\* message names EMFILE), the string 'EMFILE', and null
CodelessError == "Error"
ThrownString == "'EMFILE'"
ThrownNull == "null"
Thrown == Errors \cup {CodelessError, ThrownString, ThrownNull}
AccessDenied == "PathNotAllowedError"
Values == {"v1", "v2"}
None == "none"
\* let lastError: unknown, never assigned
Undefined == "undefined"
\* what a throwing console.warn throws
SinkError == "SinkError"

\* ------------------------------------------------------------------------
\* Paths: a path is the sequence of its segments
\* ------------------------------------------------------------------------
\* the directory the validator confines all I/O to, and the working directory
ALLOWED_ROOT == <<"root">>
Cwd == <<"root">>

\* caller-supplied paths, relative to the working directory
InsidePath == <<"d", "..", "a">>
OutsidePath == <<"..", "a">>
SurfacePaths == {InsidePath, OutsidePath}

\* the argument lists of one-path (access, readFile, ...) and two-path
\* (copyFile, rename) operations
OnePathCalls == {<<p>> : p \in SurfacePaths}
TwoPathCalls == {<<p, q>> : p, q \in SurfacePaths}
SurfaceCalls == OnePathCalls \cup TwoPathCalls

\* the argument lists of the operations the retry engine runs
RetryCalls == {<<InsidePath>>, <<InsidePath, InsidePath>>}

\* the argument lists the path helpers are called with
HelperCalls == {<<OutsidePath, InsidePath>>}

\* path normalisation: ".." removes the segment before it; with nothing
\* before it, it is dropped in an absolute path and kept in a relative one
RECURSIVE Normalize(_, _, _)
Normalize(done, rest, absolute) ==
  IF rest = <<>> THEN done
  ELSE IF Head(rest) # ".." THEN Normalize(Append(done, Head(rest)), Tail(rest), absolute)
  ELSE IF done # <<>> /\ done[Len(done)] # ".."
       THEN Normalize(SubSeq(done, 1, Len(done) - 1), Tail(rest), absolute)
  ELSE IF absolute THEN Normalize(done, Tail(rest), absolute)
  ELSE Normalize(Append(done, ".."), Tail(rest), absolute)

RECURSIVE Concat(_)
Concat(paths) == IF paths = <<>> THEN <<>> ELSE Head(paths) \o Concat(Tail(paths))

\* path.join(...paths) and path.resolve(...paths)
PathJoin(paths) == Normalize(<<>>, Concat(paths), FALSE)
PathResolve(paths) == Normalize(<<>>, Cwd \o Concat(paths), TRUE)

isPathAllowed(resolved) ==
  /\ Len(resolved) >= Len(ALLOWED_ROOT)
  /\ SubSeq(resolved, 1, Len(ALLOWED_ROOT)) = ALLOWED_ROOT

\* validatePath(filePath): the canonical path, or PathNotAllowedError
validatePath(filePath) ==
  [ok |-> isPathAllowed(PathResolve(<<filePath>>)), path |-> PathResolve(<<filePath>>)]


\* mutant: only the first path is validated
ValidateFirstOnly(raws) ==
  [ok |-> validatePath(raws[1]).ok,
   gate |-> <<raws[1]>>,
   rejected |-> IF validatePath(raws[1]).ok THEN 0 ELSE 1,
   args |-> [i \in 1..Len(raws) |-> validatePath(raws[i]).path]]

\* mutant: the paths are validated from the last to the first
ValidateAllLastFirst(raws) ==
  LET bad == {i \in 1..Len(raws) : ~validatePath(raws[i]).ok}
      stop == IF bad = {} THEN 1 ELSE CHOOSE i \in bad : \A j \in bad : i >= j
  IN [ok |-> bad = {},
      gate |-> [i \in 1..(Len(raws) - stop + 1) |-> raws[Len(raws) - i + 1]],
      rejected |-> IF bad = {} THEN 0 ELSE stop,
      args |-> IF bad = {} THEN [i \in 1..Len(raws) |-> validatePath(raws[i]).path]
               ELSE <<>>]

\* const validatedSrc = validatePath(src); const validatedDest =
\* validatePath(dest): the paths are validated in order, the first rejection
\* throws; gate lists the paths handed to the validator in the order of the
\* calls, rejected is the position of the argument whose validation threw,
\* args the validated paths the primitive will be called with
ValidateAll(raws) ==
  LET bad == {i \in 1..Len(raws) : ~validatePath(raws[i]).ok}
      stop == IF bad = {} THEN Len(raws) ELSE CHOOSE i \in bad : \A j \in bad : i <= j
  IN [ok |-> bad = {},
      gate |-> SubSeq(raws, 1, stop),
      rejected |-> IF bad = {} THEN 0 ELSE stop,
      args |-> IF bad = {} THEN [i \in 1..Len(raws) |-> validatePath(raws[i]).path]
               ELSE <<>>]

\* ------------------------------------------------------------------------
\* Configuration objects
\* ------------------------------------------------------------------------

\* mutant: a default is mistyped
DefaultConfigMistyped ==
  [maxConcurrency |-> 100, maxRetries |-> 3, baseDelay |-> 1000, maxDelay |-> 5000]

DEFAULT_CONFIG ==
  [maxConcurrency |-> 100, maxRetries |-> 3, baseDelay |-> 100, maxDelay |-> 5000]

\* object references: the module variable `config` and the object a caller
\* got from getThrottlingConfig() each hold one
Refs == {1, 2}
NoRef == 0
NoObj == [maxConcurrency |-> 0, maxRetries |-> 0, baseDelay |-> 0, maxDelay |-> 0]


\* mutant: the partial is merged into the defaults
MergeIntoDefaults(cfg, newConfig) ==
  [f \in Fields |-> IF f \in DOMAIN newConfig THEN newConfig[f] ELSE DEFAULT_CONFIG[f]]

\* { ...config, ...newConfig }: a supplied field overrides, an absent one is kept
MergeConfig(cfg, newConfig) ==
  [f \in Fields |-> IF f \in DOMAIN newConfig THEN newConfig[f] ELSE cfg[f]]

\* ------------------------------------------------------------------------
\* p-limit
\* ------------------------------------------------------------------------
LimIds == 1..(MaxOps + 2)
FreeLimiter == [concurrency |-> 0, activeCount |-> 0, queue |-> <<>>, wake |-> 0]

\* pLimit(concurrency) throws a TypeError unless given a positive integer
ValidConcurrency(n) == n \in Nat /\ n > 0


\* mutant: the limiter is built one slot too large
pLimitOneMore(n) == [concurrency |-> n + 1, activeCount |-> 0, queue |-> <<>>, wake |-> 0]

\* a fresh limiter: nothing active, empty queue, no admission check scheduled
pLimit(n) == [concurrency |-> n, activeCount |-> 0, queue |-> <<>>, wake |-> 0]


\* mutant: the guard requires active and pending work at once
InFlightBoth(L) == L.activeCount > 0 /\ Len(L.queue) > 0

\* mutant: the guard forgets the queue
InFlightActiveOnly(L) == L.activeCount > 0

\* the reconfiguration guard of configureThrottling
InFlight(L) == L.activeCount > 0 \/ Len(L.queue) > 0


\* mutant: the newest queue entry is dequeued
NextInLineLast(L) == L.queue[Len(L.queue)]

\* the queue entry p-limit dequeues next
NextInLine(L) == Head(L.queue)


\* mutant: admission ignores the capacity
CanResumeUnbounded(L) == Len(L.queue) > 0

\* p-limit admits while activeCount < concurrency and the queue is not empty
CanResume(L) == L.activeCount < L.concurrency /\ Len(L.queue) > 0

RemoveFrom(q, o) == SelectSeq(q, LAMBDA x : x # o)

\* ------------------------------------------------------------------------
\* Retry engine helpers
\* ------------------------------------------------------------------------

\* what JavaScript says about a thrown value: its truthiness, typeof error,
\* 'code' in error, and error.code
Truthy(error) == error \notin {ThrownNull, Undefined}
TypeOf(error) ==
  IF error \in Errors \cup {CodelessError, ThrownNull} THEN "object"
  ELSE IF error = ThrownString THEN "string"
  ELSE "undefined"
HasCode(error) == error \in Errors
CodeOf(error) == IF HasCode(error) THEN error ELSE Undefined


\* mutant: every error that carries a code counts as a descriptor error
isFileDescriptorErrorAnyCode(error) == error \in Errors

\* mutant: the error is classified by the text it prints as
isFileDescriptorErrorByText(error) ==
  error \in FILE_DESCRIPTOR_ERROR_CODES \cup {CodelessError, ThrownString}

isFileDescriptorError(error) ==
  IF Truthy(error) /\ TypeOf(error) = "object" /\ HasCode(error)
  THEN CodeOf(error) \in FILE_DESCRIPTOR_ERROR_CODES
  ELSE FALSE

Pow2(n) == IF n <= 0 THEN 1 ELSE 2 ^ n

Min(a, b) == IF a <= b THEN a ELSE b

\* Math.random() * baseDelay with Math.random() drawn from k / JitterSteps
Jitter(cfg, k) == (cfg.baseDelay * k) \div JitterSteps


\* mutant: the delay is not clamped
calculateDelayUnclamped(cfg, attempt, k) ==
  cfg.baseDelay * Pow2(attempt) + Jitter(cfg, k)

\* mutant: the jitter is a fraction of maxDelay
calculateDelayWideJitter(cfg, attempt, k) ==
  Min(cfg.baseDelay * Pow2(attempt) + (cfg.maxDelay * k) \div JitterSteps, cfg.maxDelay)

calculateDelay(cfg, attempt, k) ==
  Min(cfg.baseDelay * Pow2(attempt) + Jitter(cfg, k), cfg.maxDelay)


\* mutant: the retry ceiling is off by one
ShouldRetryOneLess(cfg, error, attempt) ==
  isFileDescriptorError(error) /\ attempt < cfg.maxRetries - 1

\* mutant: every error is retried
ShouldRetryAnyError(cfg, error, attempt) == attempt < cfg.maxRetries

\* the catch block retries a descriptor error while attempt < maxRetries
ShouldRetry(cfg, error, attempt) ==
  isFileDescriptorError(error) /\ attempt < cfg.maxRetries


\* mutant: the loop stops one attempt early
LoopContinuesStrict(cfg, attempt) == attempt < cfg.maxRetries

\* the for-loop condition
LoopContinues(cfg, attempt) == attempt <= cfg.maxRetries

\* ------------------------------------------------------------------------
\* State
\* ------------------------------------------------------------------------
VARIABLES heap, config, snap, fsLimit, limiters, ops, submitted, admitted,
          lastCall

vars == <<heap, config, snap, fsLimit, limiters, ops, submitted, admitted,
          lastCall>>

Cfg == heap[config]
Live == limiters[fsLimit]

getPendingOperations == Len(Live.queue)
getActiveOperations == Live.activeCount

\* the exported function called in the latest step, its argument and outcome
\* (result: the path a path helper returned)
NoCall == [name |-> "none", arg |-> [f \in {} |-> 0], outcome |-> "none",
           result |-> <<>>]

Called(name, arg, outcome) ==
  [name |-> name, arg |-> arg, outcome |-> outcome, result |-> <<>>]

NewOp ==
  [pc |-> "idle", attempt |-> 0, calls |-> 0, fdFails |-> 0, lastError |-> Undefined,
   delay |-> 0, prim |-> None, settled |-> None, lim |-> 0, notes |-> <<>>,
   raw |-> <<>>, gate |-> <<>>, args |-> <<>>, passed |-> <<>>, rejected |-> 0]

Init ==
  /\ heap = [r \in Refs |-> IF r = 1 THEN DEFAULT_CONFIG ELSE NoObj]
  /\ config = 1
  /\ snap = NoRef
  /\ fsLimit = 1
  /\ limiters = [l \in LimIds |-> IF l = 1 THEN pLimit(DEFAULT_CONFIG.maxConcurrency)
                                  ELSE FreeLimiter]
  /\ ops = [o \in Ops |-> NewOp]
  /\ submitted = <<>>
  /\ admitted = <<>>
  /\ lastCall = NoCall

\* the same module state with the operations of the surface still to issue
InitSurface ==
  /\ heap = [r \in Refs |-> IF r = 1 THEN DEFAULT_CONFIG ELSE NoObj]
  /\ config = 1
  /\ snap = NoRef
  /\ fsLimit = 1
  /\ limiters = [l \in LimIds |-> IF l = 1 THEN pLimit(DEFAULT_CONFIG.maxConcurrency)
                                  ELSE FreeLimiter]
  /\ ops = [o \in SurfaceOps |-> NewOp]
  /\ submitted = <<>>
  /\ admitted = <<>>
  /\ lastCall = NoCall

\* ------------------------------------------------------------------------
\* p-limit: admission and release
\* ------------------------------------------------------------------------
\* the admitted task starts the retry loop at attempt 0 and invokes the
\* primitive; if the loop condition fails at once the body is skipped and the
\* task is about to throw lastError
StartOp(op) ==
  IF LoopContinues(Cfg, 0)
  THEN [op EXCEPT !.pc = "io", !.attempt = 0, !.calls = @ + 1, !.passed = op.args]
  ELSE [op EXCEPT !.pc = "exit"]


\* mutant: an admitted task is not counted as active
ResumeNextUncounted(st, l) ==
  IF CanResume(st.limiters[l])
  THEN LET o == NextInLine(st.limiters[l])
       IN [limiters |-> [st.limiters EXCEPT ![l].queue = RemoveFrom(@, o)],
           ops |-> [st.ops EXCEPT ![o] = StartOp(@)],
           admitted |-> Append(st.admitted, o)]
  ELSE st

\* mutant: a task waits while a task on the same paths is executing
ResumeNextOtherPath(st, l) ==
  IF /\ CanResume(st.limiters[l])
     /\ \A q \in DOMAIN st.ops :
          st.ops[q].pc \in {"io", "sleep"}
          => st.ops[q].args # st.ops[NextInLine(st.limiters[l])].args
  THEN LET o == NextInLine(st.limiters[l])
       IN [limiters |-> [st.limiters EXCEPT ![l].queue = RemoveFrom(@, o),
                                            ![l].activeCount = @ + 1],
           ops |-> [st.ops EXCEPT ![o] = StartOp(@)],
           admitted |-> Append(st.admitted, o)]
  ELSE st

\* resumeNext(): admit the next queued task if a slot is free.
\* st is the triple of limiter table, operation table and admission history.
ResumeNext(st, l) ==
  IF CanResume(st.limiters[l])
  THEN LET o == NextInLine(st.limiters[l])
       IN [limiters |-> [st.limiters EXCEPT ![l].queue = RemoveFrom(@, o),
                                            ![l].activeCount = @ + 1],
           ops |-> [st.ops EXCEPT ![o] = StartOp(@)],
           admitted |-> Append(st.admitted, o)]
  ELSE st


\* mutant: the slot is given back but the queue is not looked at
ReleaseSlotNoResume(st, l) == [st EXCEPT !.limiters[l].activeCount = @ - 1]

\* next(): the finished task gives its slot back, then resumeNext()
ReleaseSlot(st, l) ==
  ResumeNext([st EXCEPT !.limiters[l].activeCount = @ - 1], l)

\* the task of operation o settles (its record becomes opNew) and p-limit's
\* run() calls next()
Settle(o, opNew) ==
  LET st == ReleaseSlot([limiters |-> limiters,
                         ops |-> [ops EXCEPT ![o] = opNew],
                         admitted |-> admitted], ops[o].lim)
  IN /\ limiters' = st.limiters
     /\ ops' = st.ops
     /\ admitted' = st.admitted

\* the microtask every enqueue schedules:
\* await Promise.resolve(); if (activeCount < concurrency) resumeNext()
AdmissionCheck(l) ==
  /\ limiters[l].wake > 0
  /\ LET st == ResumeNext([limiters |-> [limiters EXCEPT ![l].wake = @ - 1],
                           ops |-> ops, admitted |-> admitted], l)
     IN /\ limiters' = st.limiters
        /\ ops' = st.ops
        /\ admitted' = st.admitted
  /\ UNCHANGED <<heap, config, snap, fsLimit, submitted>>
  /\ lastCall' = NoCall

\* ------------------------------------------------------------------------
\* Operation surface: access, readFile, writeFile, ... (one path)
\* ------------------------------------------------------------------------
Issuable(o) ==
  ops[o].pc = "idle" /\ \A q \in DOMAIN ops : q < o => ops[q].pc # "idle"

\* validatePath throws: the call rejects before executeWithRetry is reached
CallDenied(o, raws) ==
  /\ Issuable(o)
  /\ ~ValidateAll(raws).ok
  /\ ops' = [ops EXCEPT ![o].pc = "denied", ![o].settled = AccessDenied,
                        ![o].raw = raws, ![o].gate = ValidateAll(raws).gate,
                        ![o].rejected = ValidateAll(raws).rejected]
  /\ UNCHANGED <<heap, config, snap, fsLimit, limiters, submitted, admitted>>
  /\ lastCall' = NoCall


\* mutant: the operation is submitted without validating its paths
CallAcceptedUnvalidated(o, raws) ==
  /\ Issuable(o)
  /\ ops' = [ops EXCEPT ![o].pc = "queued", ![o].lim = fsLimit, ![o].raw = raws,
                        ![o].args = [i \in 1..Len(raws) |-> PathResolve(<<raws[i]>>)]]
  /\ limiters' = [limiters EXCEPT ![fsLimit].queue = Append(@, o),
                                  ![fsLimit].wake = @ + 1]
  /\ submitted' = Append(submitted, o)
  /\ UNCHANGED <<heap, config, snap, fsLimit, admitted>>
  /\ lastCall' = NoCall

\* validatePath returns: executeWithRetry hands the task to fsLimit, which
\* enqueues it and schedules an admission check
CallAccepted(o, raws) ==
  /\ Issuable(o)
  /\ ValidateAll(raws).ok
  /\ ops' = [ops EXCEPT ![o].pc = "queued", ![o].lim = fsLimit, ![o].raw = raws,
                        ![o].gate = ValidateAll(raws).gate,
                        ![o].args = ValidateAll(raws).args]
  /\ limiters' = [limiters EXCEPT ![fsLimit].queue = Append(@, o),
                                  ![fsLimit].wake = @ + 1]
  /\ submitted' = Append(submitted, o)
  /\ UNCHANGED <<heap, config, snap, fsLimit, admitted>>
  /\ lastCall' = NoCall

\* ------------------------------------------------------------------------
\* executeWithRetry: the retry loop of one admitted task
\* ------------------------------------------------------------------------

\* mutant: the backoff is a busy wait, nothing else runs meanwhile
PrimitiveSucceedsUnlessBackoff(o, v) ==
  /\ ops[o].pc = "io"
  /\ \A q \in DOMAIN ops : ops[q].pc # "sleep"
  /\ Settle(o, [ops[o] EXCEPT !.pc = "ok", !.prim = v, !.settled = v])
  /\ UNCHANGED <<heap, config, snap, fsLimit, submitted>>
  /\ lastCall' = NoCall

\* return await operation()
PrimitiveSucceeds(o, v) ==
  /\ ops[o].pc = "io"
  /\ Settle(o, [ops[o] EXCEPT !.pc = "ok", !.prim = v, !.settled = v])
  /\ UNCHANGED <<heap, config, snap, fsLimit, submitted>>
  /\ lastCall' = NoCall


\* mutant: the slot is given back for the time of the backoff
PrimitiveFailsRetryReleases(o, e, k) ==
  /\ ops[o].pc = "io"
  /\ ShouldRetry(Cfg, e, ops[o].attempt)
  /\ Settle(o, [ops[o] EXCEPT !.pc = "sleep", !.prim = e, !.lastError = e,
                              !.fdFails = @ + 1,
                              !.delay = calculateDelay(Cfg, ops[o].attempt, k),
                              !.notes = Append(@, ops[o].attempt)])
  /\ UNCHANGED <<heap, config, snap, fsLimit, submitted>>
  /\ lastCall' = NoCall

\* catch (error): descriptor error with retries left: warn and sleep
PrimitiveFailsRetry(o, e, k) ==
  /\ ops[o].pc = "io"
  /\ ShouldRetry(Cfg, e, ops[o].attempt)
  /\ ops' = [ops EXCEPT ![o].pc = "sleep",
                        ![o].prim = e,
                        ![o].lastError = e,
                        ![o].fdFails = @ + 1,
                        ![o].delay = calculateDelay(Cfg, ops[o].attempt, k),
                        ![o].notes = Append(@, ops[o].attempt)]
  /\ UNCHANGED <<heap, config, snap, fsLimit, limiters, submitted, admitted>>
  /\ lastCall' = NoCall


\* mutant: a task that throws keeps its slot
PrimitiveFailsThrowKeepsSlot(o, e) ==
  /\ ops[o].pc = "io"
  /\ ~ShouldRetry(Cfg, e, ops[o].attempt)
  /\ ops' = [ops EXCEPT ![o].pc = "failed", ![o].prim = e, ![o].lastError = e,
                        ![o].fdFails = IF isFileDescriptorError(e) THEN @ + 1 ELSE @,
                        ![o].settled = e]
  /\ UNCHANGED <<heap, config, snap, fsLimit, limiters, submitted, admitted>>
  /\ lastCall' = NoCall

\* catch (error): anything else, or no retries left: throw error
PrimitiveFailsThrow(o, e) ==
  /\ ops[o].pc = "io"
  /\ ~ShouldRetry(Cfg, e, ops[o].attempt)
  /\ Settle(o, [ops[o] EXCEPT !.pc = "failed",
                              !.prim = e,
                              !.lastError = e,
                              !.fdFails = IF isFileDescriptorError(e) THEN @ + 1 ELSE @,
                              !.settled = e])
  /\ UNCHANGED <<heap, config, snap, fsLimit, submitted>>
  /\ lastCall' = NoCall


\* mutant: every attempt validates the caller's paths again
TimerRetryRevalidates(o) ==
  /\ ops[o].pc = "sleep"
  /\ LoopContinues(Cfg, ops[o].attempt + 1)
  /\ ops' = [ops EXCEPT ![o].pc = "io", ![o].attempt = @ + 1,
                        ![o].calls = @ + 1, ![o].delay = 0,
                        ![o].gate = @ \o ops[o].raw,
                        ![o].passed = ValidateAll(ops[o].raw).args]
  /\ UNCHANGED <<heap, config, snap, fsLimit, limiters, submitted, admitted>>
  /\ lastCall' = NoCall

\* the sleep timer fires: continue; attempt++ and the loop condition holds:
\* operation() is called again, with the paths the closure captured
TimerRetry(o) ==
  /\ ops[o].pc = "sleep"
  /\ LoopContinues(Cfg, ops[o].attempt + 1)
  /\ ops' = [ops EXCEPT ![o].pc = "io", ![o].attempt = @ + 1,
                        ![o].calls = @ + 1, ![o].delay = 0,
                        ![o].passed = ops[o].args]
  /\ UNCHANGED <<heap, config, snap, fsLimit, limiters, submitted, admitted>>
  /\ lastCall' = NoCall


\* mutant: the retry ceiling is the one the backoff started under, so the
\* attempt announced is made whatever the configuration says by now
TimerExhaustedRetries(o) ==
  /\ ops[o].pc = "sleep"
  /\ ~LoopContinues(Cfg, ops[o].attempt + 1)
  /\ ops' = [ops EXCEPT ![o].pc = "io", ![o].attempt = @ + 1,
                        ![o].calls = @ + 1, ![o].delay = 0,
                        ![o].passed = ops[o].args]
  /\ UNCHANGED <<heap, config, snap, fsLimit, limiters, submitted, admitted>>
  /\ lastCall' = NoCall

\* the sleep timer fires: continue; attempt++ and the loop ends: throw lastError
TimerExhausted(o) ==
  /\ ops[o].pc = "sleep"
  /\ ~LoopContinues(Cfg, ops[o].attempt + 1)
  /\ Settle(o, [ops[o] EXCEPT !.pc = "failed", !.attempt = @ + 1, !.delay = 0,
                              !.settled = ops[o].lastError])
  /\ UNCHANGED <<heap, config, snap, fsLimit, submitted>>
  /\ lastCall' = NoCall

\* the loop body never ran: throw lastError, which was never assigned
LoopSkipped(o) ==
  /\ ops[o].pc = "exit"
  /\ Settle(o, [ops[o] EXCEPT !.pc = "failed", !.settled = ops[o].lastError])
  /\ UNCHANGED <<heap, config, snap, fsLimit, submitted>>
  /\ lastCall' = NoCall

\* catch (error): descriptor error with retries left, and console.warn itself
\* throws: the exception leaves the catch block and the task rejects with it
WarnThrows(o, e) ==
  /\ ops[o].pc = "io"
  /\ ShouldRetry(Cfg, e, ops[o].attempt)
  /\ Settle(o, [ops[o] EXCEPT !.pc = "failed", !.prim = e, !.lastError = e,
                              !.fdFails = @ + 1, !.settled = SinkError])
  /\ UNCHANGED <<heap, config, snap, fsLimit, submitted>>
  /\ lastCall' = NoCall

\* const delay = calculateDelay(attempt), on its own: the delay the catch
\* block computes for an attempt index under the live configuration
DelayComputed(attempt, k) ==
  /\ lastCall' = [name |-> "calculateDelay", arg |-> [x \in {"attempt"} |-> attempt],
                  outcome |-> "ok", result |-> <<calculateDelay(Cfg, attempt, k)>>]
  /\ UNCHANGED <<heap, config, snap, fsLimit, limiters, ops, submitted, admitted>>

\* ------------------------------------------------------------------------
\* Path helpers
\* ------------------------------------------------------------------------

\* mutant: the helper validates the joined path
joinPathGated(paths) ==
  /\ lastCall' = [name |-> "joinPath", arg |-> NoCall.arg,
                  outcome |-> IF validatePath(PathJoin(paths)).ok THEN "ok" ELSE "denied",
                  result |-> PathJoin(paths)]
  /\ UNCHANGED <<heap, config, snap, fsLimit, limiters, ops, submitted, admitted>>

\* return path.join(...paths)
joinPath(paths) ==
  /\ lastCall' = [name |-> "joinPath", arg |-> NoCall.arg, outcome |-> "ok",
                  result |-> PathJoin(paths)]
  /\ UNCHANGED <<heap, config, snap, fsLimit, limiters, ops, submitted, admitted>>

\* return path.resolve(...paths)
resolvePath(paths) ==
  /\ lastCall' = [name |-> "resolvePath", arg |-> NoCall.arg, outcome |-> "ok",
                  result |-> PathResolve(paths)]
  /\ UNCHANGED <<heap, config, snap, fsLimit, limiters, ops, submitted, admitted>>

\* ------------------------------------------------------------------------
\* Configuration manager
\* ------------------------------------------------------------------------

\* mutant: the guard does not compare with the current value
ChangesConcurrencyWhenPresent(cfg, newConfig) == "maxConcurrency" \in DOMAIN newConfig

\* newConcurrency !== undefined && newConcurrency !== config.maxConcurrency
ChangesConcurrency(cfg, newConfig) ==
  /\ "maxConcurrency" \in DOMAIN newConfig
  /\ newConfig.maxConcurrency # cfg.maxConcurrency

\* the reference a freshly created object gets; an object nobody refers to
\* any more is collected and its reference reused
FreshRef(keep) == CHOOSE r \in Refs : r \notin keep /\ \A q \in Refs : q < r => q \in keep

\* a limiter some unfinished task was handed to
Referenced(l) ==
  \E o \in DOMAIN ops : ops[o].lim = l /\ ops[o].pc \in {"queued", "io", "sleep", "exit"}

\* the limiter id a freshly created limiter gets; a limiter no task refers to
\* is collected and its id reused
FreshLim == CHOOSE l \in LimIds :
              ~Referenced(l) /\ \A q \in LimIds : q < l => Referenced(q)

\* config = { ...config, ...newConfig }: a new object replaces the live one
StoreConfig(cfg) ==
  LET r == FreshRef({snap} \ {NoRef})
  IN /\ config' = r
     /\ heap' = [q \in Refs |-> IF q = r THEN cfg
                                ELSE IF q = snap THEN heap[q] ELSE NoObj]

\* mutant: the merge is done before the guard throws
ConfigureConflictAfterMerge(newConfig) ==
  /\ ChangesConcurrency(Cfg, newConfig)
  /\ InFlight(Live)
  /\ StoreConfig(MergeConfig(Cfg, [f \in DOMAIN newConfig \ {"maxConcurrency"} |-> newConfig[f]]))
  /\ lastCall' = Called("configure", newConfig, "conflict")
  /\ UNCHANGED <<snap, fsLimit, limiters, ops, submitted, admitted>>

\* mutant: the whole partial is merged before the guard throws
ConfigureConflictStoresAll(newConfig) ==
  /\ ChangesConcurrency(Cfg, newConfig)
  /\ InFlight(Live)
  /\ StoreConfig(MergeConfig(Cfg, newConfig))
  /\ lastCall' = Called("configure", newConfig, "conflict")
  /\ UNCHANGED <<snap, fsLimit, limiters, ops, submitted, admitted>>

\* throw new Error('[SecureFS] Cannot change maxConcurrency while operations
\* are in flight ...')
ConfigureConflict(newConfig) ==
  /\ ChangesConcurrency(Cfg, newConfig)
  /\ InFlight(Live)
  /\ lastCall' = Called("configure", newConfig, "conflict")
  /\ UNCHANGED <<heap, config, snap, fsLimit, limiters, ops, submitted, admitted>>


\* mutant: the configuration is merged before pLimit is called and throws
ConfigureInvalidAfterMerge(newConfig) ==
  /\ ChangesConcurrency(Cfg, newConfig)
  /\ ~InFlight(Live)
  /\ ~ValidConcurrency(newConfig.maxConcurrency)
  /\ StoreConfig(MergeConfig(Cfg, newConfig))
  /\ lastCall' = Called("configure", newConfig, "typeerror")
  /\ UNCHANGED <<snap, fsLimit, limiters, ops, submitted, admitted>>

\* pLimit(newConcurrency) throws a TypeError
ConfigureInvalid(newConfig) ==
  /\ ChangesConcurrency(Cfg, newConfig)
  /\ ~InFlight(Live)
  /\ ~ValidConcurrency(newConfig.maxConcurrency)
  /\ lastCall' = Called("configure", newConfig, "typeerror")
  /\ UNCHANGED <<heap, config, snap, fsLimit, limiters, ops, submitted, admitted>>

\* mutant: the configuration is merged but the limiter is not rebuilt
ConfigureSwapKeepsLimiter(newConfig) ==
  /\ ChangesConcurrency(Cfg, newConfig)
  /\ ~InFlight(Live)
  /\ ValidConcurrency(newConfig.maxConcurrency)
  /\ StoreConfig(MergeConfig(Cfg, newConfig))
  /\ lastCall' = Called("configure", newConfig, "ok")
  /\ UNCHANGED <<snap, fsLimit, limiters, ops, submitted, admitted>>

\* fsLimit = pLimit(newConcurrency); config = { ...config, ...newConfig }
ConfigureSwap(newConfig) ==
  /\ ChangesConcurrency(Cfg, newConfig)
  /\ ~InFlight(Live)
  /\ ValidConcurrency(newConfig.maxConcurrency)
  /\ LET l == FreshLim
     IN /\ fsLimit' = l
        /\ limiters' = [q \in LimIds |->
                          IF q = l THEN pLimit(newConfig.maxConcurrency)
                          ELSE IF Referenced(q) THEN limiters[q] ELSE FreeLimiter]
  /\ StoreConfig(MergeConfig(Cfg, newConfig))
  /\ lastCall' = Called("configure", newConfig, "ok")
  /\ UNCHANGED <<snap, ops, submitted, admitted>>

\* maxConcurrency absent or unchanged: only config = { ...config, ...newConfig }
ConfigureMerge(newConfig) ==
  /\ ~ChangesConcurrency(Cfg, newConfig)
  /\ StoreConfig(MergeConfig(Cfg, newConfig))
  /\ lastCall' = Called("configure", newConfig, "ok")
  /\ UNCHANGED <<snap, fsLimit, limiters, ops, submitted, admitted>>

configureThrottling(newConfig) ==
  \/ ConfigureConflict(newConfig)
  \/ ConfigureInvalid(newConfig)
  \/ ConfigureSwap(newConfig)
  \/ ConfigureMerge(newConfig)

\* mutant: return config, the live object itself
getThrottlingConfigAlias ==
  /\ snap' = config
  /\ heap' = [q \in Refs |-> IF q = config THEN heap[q] ELSE NoObj]
  /\ lastCall' = Called("getConfig", NoCall.arg, "ok")
  /\ UNCHANGED <<config, fsLimit, limiters, ops, submitted, admitted>>

\* return { ...config }: the caller receives a new object
getThrottlingConfig ==
  /\ LET r == FreshRef({config})
     IN /\ snap' = r
        /\ heap' = [q \in Refs |-> IF q = r THEN MergeConfig(Cfg, NoCall.arg)
                                   ELSE IF q = config THEN heap[q] ELSE NoObj]
  /\ lastCall' = Called("getConfig", NoCall.arg, "ok")
  /\ UNCHANGED <<config, fsLimit, limiters, ops, submitted, admitted>>

\* the caller writes a field of the object getThrottlingConfig returned
MutateReturned(f, v) ==
  /\ snap # NoRef
  /\ heap[snap][f] # v
  /\ heap' = [heap EXCEPT ![snap][f] = v]
  /\ lastCall' = Called("mutate", [x \in {f} |-> v], "ok")
  /\ UNCHANGED <<config, snap, fsLimit, limiters, ops, submitted, admitted>>

\* ------------------------------------------------------------------------
\* Specifications
\* ------------------------------------------------------------------------
\* the limiter under load: several operations, capacity and retry ceiling change
Next ==
  \/ \E o \in Ops : CallDenied(o, <<OutsidePath>>)
  \/ \E o \in Ops : CallAccepted(o, <<InsidePath>>)
  \/ \E l \in LimIds : AdmissionCheck(l)
  \/ \E o \in Ops : PrimitiveSucceeds(o, "v1")
  \/ \E o \in Ops, e \in {"EMFILE", "ENOENT"} : PrimitiveFailsRetry(o, e, 0)
  \/ \E o \in Ops, e \in {"EMFILE", "ENOENT"} : PrimitiveFailsThrow(o, e)
  \/ \E o \in Ops : TimerRetry(o)
  \/ \E o \in Ops : TimerExhausted(o)
  \/ \E p \in LimiterPartials : ConfigureConflict(p)
  \/ \E p \in LimiterPartials : ConfigureInvalid(p)
  \/ \E p \in LimiterPartials : ConfigureSwap(p)
  \/ \E p \in LimiterPartials : ConfigureMerge(p)

Spec == Init /\ [][Next]_vars

\* the configuration manager: every field, snapshots, one operation in flight
NextCfg ==
  \/ \E o \in SingleOp : CallAccepted(o, <<InsidePath>>)
  \/ \E l \in LimIds : AdmissionCheck(l)
  \/ \E o \in SingleOp : PrimitiveSucceeds(o, "v1")
  \/ \E p \in ConfigPartials : ConfigureConflict(p)
  \/ \E p \in ConfigPartials : ConfigureInvalid(p)
  \/ \E p \in ConfigPartials : ConfigureSwap(p)
  \/ \E p \in ConfigPartials : ConfigureMerge(p)
  \/ getThrottlingConfig
  \/ \E f \in Fields : MutateReturned(f, Scribble)

SpecCfg == Init /\ [][NextCfg]_vars

\* the retry engine: one operation, every outcome of the primitive, retuning
NextRetry ==
  \/ \E o \in SingleOp, c \in RetryCalls : CallAccepted(o, c)
  \/ \E l \in LimIds : AdmissionCheck(l)
  \/ \E o \in SingleOp, v \in Values : PrimitiveSucceeds(o, v)
  \/ \E o \in SingleOp, e \in Errors, k \in 0..(JitterSteps - 1) :
       PrimitiveFailsRetry(o, e, k)
  \/ \E o \in SingleOp, e \in Errors : PrimitiveFailsThrow(o, e)
  \/ \E o \in SingleOp : TimerRetry(o)
  \/ \E o \in SingleOp : TimerExhausted(o)
  \/ \E o \in SingleOp : LoopSkipped(o)
  \/ \E p \in RetryPartials : ConfigureMerge(p)

SpecRetry == Init /\ [][NextRetry]_vars

\* the retry engine with a console.warn that may throw
NextSink ==
  \/ \E o \in SingleOp : CallAccepted(o, <<InsidePath>>)
  \/ \E l \in LimIds : AdmissionCheck(l)
  \/ \E o \in SingleOp, v \in Values : PrimitiveSucceeds(o, v)
  \/ \E o \in SingleOp, e \in Errors, k \in 0..(JitterSteps - 1) :
       PrimitiveFailsRetry(o, e, k)
  \/ \E o \in SingleOp, e \in Errors : WarnThrows(o, e)
  \/ \E o \in SingleOp, e \in Errors : PrimitiveFailsThrow(o, e)
  \/ \E o \in SingleOp : TimerRetry(o)
  \/ \E o \in SingleOp : TimerExhausted(o)
  \/ \E o \in SingleOp : LoopSkipped(o)
  \/ \E p \in RetryPartials : ConfigureMerge(p)

SpecSink == Init /\ [][NextSink]_vars

\* progress: the operations of the limiter under load with the retry
\* parameters left alone, and an event loop that runs every scheduled
\* admission check, delivers the outcome of every pending primitive call and
\* fires every backoff timer
NextLive ==
  \/ \E o \in Ops : CallAccepted(o, <<InsidePath>>)
  \/ \E l \in LimIds : AdmissionCheck(l)
  \/ \E o \in Ops : PrimitiveSucceeds(o, "v1")
  \/ \E o \in Ops : PrimitiveFailsRetry(o, "EMFILE", 0)
  \/ \E o \in Ops, e \in {"EMFILE", "ENOENT"} : PrimitiveFailsThrow(o, e)
  \/ \E o \in Ops : TimerRetry(o)
  \/ \E p \in LivePartials : ConfigureSwap(p)

\* the primitive called by operation o settles, one way or another
PrimitiveSettles(o) ==
  \/ PrimitiveSucceeds(o, "v1")
  \/ PrimitiveFailsRetry(o, "EMFILE", 0)
  \/ \E e \in {"EMFILE", "ENOENT"} : PrimitiveFailsThrow(o, e)

\* the setTimeout of sleep(delay) fires
TimerFires(o) == TimerRetry(o) \/ TimerExhausted(o)

EventLoopFairness ==
  /\ \A l \in LimIds : WF_vars(AdmissionCheck(l))
  /\ \A o \in Ops : WF_vars(PrimitiveSettles(o))
  /\ \A o \in Ops : WF_vars(TimerFires(o))

SpecLive == Init /\ [][NextLive]_vars /\ EventLoopFairness

\* the operation surface: one-path and two-path operations with accepted and
\* rejected paths, the path helpers, a limiter that can be saturated
NextSurface ==
  \/ \E o \in SurfaceOps, c \in SurfaceCalls : CallDenied(o, c)
  \/ \E o \in SurfaceOps, c \in SurfaceCalls : CallAccepted(o, c)
  \/ \E l \in LimIds : AdmissionCheck(l)
  \/ \E o \in SurfaceOps : PrimitiveSucceeds(o, "v1")
  \/ \E p \in SurfacePartials : ConfigureSwap(p)
  \/ \E p \in SurfacePartials : ConfigureMerge(p)
  \/ \E c \in HelperCalls : joinPath(c)
  \/ \E c \in HelperCalls : resolvePath(c)

SpecSurface == InitSurface /\ [][NextSurface]_vars

\* error classification: one operation whose primitive throws every kind of
\* value
NextClassify ==
  \/ \E o \in SingleOp : CallAccepted(o, <<InsidePath>>)
  \/ \E l \in LimIds : AdmissionCheck(l)
  \/ \E o \in SingleOp, v \in Values : PrimitiveSucceeds(o, v)
  \/ \E o \in SingleOp, e \in Thrown, k \in 0..(JitterSteps - 1) :
       PrimitiveFailsRetry(o, e, k)
  \/ \E o \in SingleOp, e \in Thrown : PrimitiveFailsThrow(o, e)
  \/ \E o \in SingleOp : TimerRetry(o)
  \/ \E o \in SingleOp : TimerExhausted(o)
  \/ \E p \in ClassifyPartials : ConfigureMerge(p)

SpecClassify == Init /\ [][NextClassify]_vars

\* the backoff delay as a function of the attempt index, the jitter and the
\* configuration
NextDelay ==
  \/ \E a \in DelayAttempts, k \in 0..(JitterSteps - 1) : DelayComputed(a, k)
  \/ \E p \in DelayPartials : ConfigureMerge(p)

SpecDelay == Init /\ [][NextDelay]_vars

\* ------------------------------------------------------------------------
\* Properties
\* ------------------------------------------------------------------------
Outstanding == {o \in DOMAIN ops : ops[o].pc \in {"queued", "io", "sleep", "exit"}}
Executing == {o \in DOMAIN ops : ops[o].pc \in {"io", "sleep", "exit"}}

IsPrefix(a, b) == Len(a) <= Len(b) /\ \A i \in 1..Len(a) : a[i] = b[i]

NoneCompleted == \A i \in 1..Len(submitted) : submitted[i] \in Outstanding

\* the latest step was configureThrottling(p) for a p naming maxConcurrency
ConfiguredConcurrency(call) ==
  call.name = "configure" /\ "maxConcurrency" \in DOMAIN call.arg

\* C1: in every reachable state the number of executing operations, and the
\* limiter's activeCount, lie between 0 and the configured maxConcurrency
C1_ActiveWithinCapacity ==
  /\ getActiveOperations >= 0
  /\ getActiveOperations <= heap[config].maxConcurrency
  /\ Cardinality(Executing) <= heap[config].maxConcurrency

C1_Witness ==
  /\ heap[config].maxConcurrency = 2
  /\ getActiveOperations = 2
  /\ Cardinality(Executing) = 2

\* C2 as stated: once n + k operations were submitted under capacity n and
\* none has completed, pendingCount is k
C2_PendingIsExcess ==
  (NoneCompleted /\ Len(submitted) >= heap[config].maxConcurrency)
    => getPendingOperations = Len(submitted) - heap[config].maxConcurrency

\* C2 amended: once n + k operations were submitted under capacity n, none has
\* completed and the admission check of every submission has run,
\* pendingCount is k
C2_PendingIsExcessAfterChecks ==
  (NoneCompleted /\ Len(submitted) >= heap[config].maxConcurrency /\ Live.wake = 0)
    => getPendingOperations = Len(submitted) - heap[config].maxConcurrency

C2_Witness ==
  /\ NoneCompleted
  /\ Live.wake = 0
  /\ Len(submitted) = heap[config].maxConcurrency + 1
  /\ getPendingOperations = 1

\* C3: admission order equals submission order: the operations admitted so
\* far are the first operations submitted, in the same order
C3_AdmissionIsFifo == IsPrefix(admitted, submitted)

C3_Witness ==
  /\ Len(submitted) = 2
  /\ admitted = submitted
  /\ Live.concurrency = 1
  /\ ops[submitted[1]].pc \in {"ok", "failed"}
  /\ ops[submitted[2]].pc = "io"

\* C4 as stated: configureThrottling with a maxConcurrency field, called while
\* an operation is active or pending, fails with the conflict error and leaves
\* the configuration unchanged
C4_ConfigureInFlightFails ==
  [][(/\ ConfiguredConcurrency(lastCall')
      /\ (Live.activeCount > 0 \/ Len(Live.queue) > 0))
     => (lastCall'.outcome = "conflict" /\ heap'[config'] = heap[config])]_vars

\* C4 amended: configureThrottling with a maxConcurrency different from the
\* current one, called while an operation is active or pending, fails with the
\* conflict error and leaves the configuration unchanged
C4_ChangeInFlightFails ==
  [][(/\ ConfiguredConcurrency(lastCall')
      /\ lastCall'.arg["maxConcurrency"] # heap[config].maxConcurrency
      /\ (Live.activeCount > 0 \/ Len(Live.queue) > 0))
     => (lastCall'.outcome = "conflict" /\ heap'[config'] = heap[config])]_vars

C4_Witness ==
  /\ lastCall.outcome = "conflict"
  /\ getActiveOperations = 0
  /\ getPendingOperations > 0

\* C5: a configureThrottling call that fails with the conflict error changes
\* neither the configuration (whatever other fields were supplied), nor the
\* live limiter, nor the counts, nor the queue
C5_ConflictChangesNothing ==
  [][lastCall'.outcome = "conflict"
     => UNCHANGED <<heap, config, fsLimit, limiters, ops, submitted, admitted>>]_vars

C5_Witness ==
  /\ lastCall.outcome = "conflict"
  /\ DOMAIN lastCall.arg = Fields
  /\ \A f \in Fields : heap[config][f] # lastCall.arg[f]
  /\ getActiveOperations > 0

\* C6: every unfinished operation sits in the live limiter, a replaced limiter
\* holds nothing, and the live limiter is replaced only when it has no active
\* and no pending operation
C6_LiveOnly ==
  /\ \A o \in Outstanding : ops[o].lim = fsLimit
  /\ \A l \in LimIds \ {fsLimit} :
       limiters[l].activeCount = 0 /\ Len(limiters[l].queue) = 0

C6_OnlyLiveLimiterUsed ==
  /\ C6_LiveOnly
  /\ [][/\ C6_LiveOnly'
        /\ (fsLimit' # fsLimit \/ limiters'[fsLimit'].concurrency # Live.concurrency)
           => (Live.activeCount = 0 /\ Len(Live.queue) = 0 /\ Outstanding = {})]_vars

C6_Witness ==
  /\ Live.concurrency = 2
  /\ Outstanding # {}
  /\ \E o \in Ops : ops[o].pc \in {"ok", "failed"}

\* C7 as stated: configureThrottling with a maxConcurrency n different from the
\* current one, called with nothing active or pending, succeeds, installs a
\* fresh limiter of capacity n and sets maxConcurrency to n
C7_IdleChangeSucceeds ==
  [][(/\ ConfiguredConcurrency(lastCall')
      /\ lastCall'.arg["maxConcurrency"] # heap[config].maxConcurrency
      /\ Live.activeCount = 0 /\ Len(Live.queue) = 0)
     => (/\ lastCall'.outcome = "ok"
         /\ heap'[config'].maxConcurrency = lastCall'.arg["maxConcurrency"]
         /\ limiters'[fsLimit'].concurrency = lastCall'.arg["maxConcurrency"]
         /\ limiters'[fsLimit'].activeCount = 0
         /\ Len(limiters'[fsLimit'].queue) = 0)]_vars

\* C7 amended: the same for a positive integer n; and the operations executing
\* never outnumber the capacity of the live limiter
C7_IdleValidChangeSucceeds ==
  [][/\ (/\ ConfiguredConcurrency(lastCall')
         /\ lastCall'.arg["maxConcurrency"] # heap[config].maxConcurrency
         /\ lastCall'.arg["maxConcurrency"] >= 1
         /\ Live.activeCount = 0 /\ Len(Live.queue) = 0)
        => (/\ lastCall'.outcome = "ok"
            /\ heap'[config'].maxConcurrency = lastCall'.arg["maxConcurrency"]
            /\ limiters'[fsLimit'].concurrency = lastCall'.arg["maxConcurrency"]
            /\ limiters'[fsLimit'].activeCount = 0
            /\ Len(limiters'[fsLimit'].queue) = 0)
     /\ Cardinality(Executing') <= limiters'[fsLimit'].concurrency]_vars

C7_Witness ==
  /\ Live.concurrency = 1
  /\ heap[config].maxConcurrency = 1
  /\ Cardinality(Executing) = 1
  /\ getPendingOperations = 1

C9_SnapshotIsCopy ==
  [][/\ lastCall'.name = "getConfig"
        => (snap' # config' /\ heap'[snap'] = heap[config]
            /\ heap'[config'] = heap[config])
     /\ lastCall'.name = "mutate" => heap'[config'] = heap[config]]_vars

C9_Witness ==
  /\ lastCall.name = "mutate"
  /\ snap # NoRef
  /\ heap[snap].maxRetries = Scribble
  /\ heap[config].maxRetries # Scribble

\* C10: an operation that succeeds after r descriptor errors resolves with the
\* value of the succeeding attempt and has emitted exactly r notifications
\* with non-decreasing attempt indices; and an operation is never given up on
\* a descriptor error while no more than maxRetries attempts have failed
C10_Succeeded(op) ==
  op.pc = "ok" =>
    /\ op.settled = op.prim
    /\ op.prim \in Values
    /\ op.calls = op.fdFails + 1
    /\ Len(op.notes) = op.fdFails
    /\ \A i \in 1..(Len(op.notes) - 1) : op.notes[i] <= op.notes[i + 1]

C10_RetriedThenSucceeds ==
  [][\A o \in Ops :
       /\ C10_Succeeded(ops'[o])
       /\ (/\ ops[o].pc # "failed"
           /\ ops'[o].pc = "failed"
           /\ ops'[o].settled \in {"ENFILE", "EMFILE"})
          => ops'[o].fdFails > heap[config].maxRetries]_vars

C10_Witness ==
  \E o \in Ops :
    /\ ops[o].pc = "ok"
    /\ ops[o].fdFails = 2
    /\ ops[o].notes = <<0, 1>>
    /\ heap[config].maxRetries = 3

C12_NonDescriptorFailsAtOnce ==
  [][\A o \in Ops :
       (/\ ops[o].pc = "io"
        /\ ops[o].attempt = 0
        /\ ops'[o] # ops[o]
        /\ ops'[o].prim \notin {"v1", "v2", "ENFILE", "EMFILE"})
       => (/\ ops'[o].pc = "failed"
           /\ ops'[o].settled = ops'[o].prim
           /\ ops'[o].calls = 1
           /\ ops'[o].fdFails = 0
           /\ ops'[o].delay = 0
           /\ ops'[o].notes = <<>>)]_vars

C12_Witness ==
  \E o \in Ops :
    /\ ops[o].pc = "failed"
    /\ ops[o].settled = "ENOENT"
    /\ ops[o].calls = 1
    /\ ops[o].notes = <<>>
    /\ heap[config].maxRetries = 3

\* C13: a one-path operation whose path the validator rejects fails in the
\* step of the call with the rejection: limiter, counts, queue and admission
\* history are unchanged, the primitive is not invoked, nothing is announced,
\* and the operation never does anything afterwards
C13_RejectedNeverSubmitted ==
  [][\A o \in DOMAIN ops :
       /\ (/\ ops[o].pc = "idle"
           /\ ops'[o].pc # "idle"
           /\ Len(ops'[o].raw) = 1
           /\ ~validatePath(ops'[o].raw[1]).ok)
          => (/\ ops'[o].pc = "denied"
              /\ ops'[o].settled = AccessDenied
              /\ ops'[o].calls = 0
              /\ ops'[o].notes = <<>>
              /\ UNCHANGED <<heap, config, fsLimit, limiters, submitted, admitted>>)
       /\ ops[o].pc = "denied" => ops'[o] = ops[o]]_vars

C13_Witness ==
  /\ \E o \in DOMAIN ops : ops[o].pc = "denied" /\ Len(ops[o].raw) = 1
  /\ Live.concurrency = 1
  /\ getActiveOperations = 1
  /\ getPendingOperations = 1

\* C14: a two-path operation (copyFile, rename) is submitted only with both
\* paths validated, in which case the primitive gets the two validated paths;
\* if either path is rejected the call fails in its own step, the limiter and
\* its counts are unchanged and the primitive is never invoked
C14_BothPathsValidatedFirst ==
  [][\A o \in DOMAIN ops :
       /\ (ops[o].pc = "idle" /\ ops'[o].pc # "idle" /\ Len(ops'[o].raw) = 2)
          => IF \E i \in 1..2 : ~validatePath(ops'[o].raw[i]).ok
             THEN /\ ops'[o].pc = "denied"
                  /\ ops'[o].settled = AccessDenied
                  /\ ops'[o].calls = 0
                  /\ UNCHANGED <<fsLimit, limiters, submitted, admitted>>
             ELSE /\ ops'[o].pc = "queued"
                  /\ ops'[o].calls = 0
                  /\ ops'[o].gate = ops'[o].raw
                  /\ ops'[o].args = <<validatePath(ops'[o].raw[1]).path,
                                      validatePath(ops'[o].raw[2]).path>>
       /\ (Len(ops'[o].raw) = 2 /\ ops'[o].calls > 0)
          => \A i \in 1..2 : validatePath(ops'[o].raw[i]).ok]_vars

C14_Witness ==
  /\ \E o \in DOMAIN ops :
       /\ ops[o].pc = "denied"
       /\ ops[o].raw = <<InsidePath, OutsidePath>>
       /\ ops[o].calls = 0
  /\ \E o \in DOMAIN ops :
       /\ ops[o].pc = "ok"
       /\ ops[o].raw = <<InsidePath, InsidePath>>
  /\ submitted = admitted
  /\ Len(submitted) = 1

\* C15: the backoff delay computed after attempt a never exceeds maxDelay,
\* lies within [baseDelay * 2^a, baseDelay * 2^a + baseDelay] when it is below
\* maxDelay, and equals min(baseDelay * 2^a + jitter, maxDelay) for a jitter
\* between 0 and baseDelay
C15_DelayWithinBounds ==
  [][\A o \in Ops :
       (ops[o].pc = "io" /\ ops'[o].pc = "sleep")
       => LET a == ops[o].attempt
              b == heap[config].baseDelay
              m == heap[config].maxDelay
              d == ops'[o].delay
          IN /\ d <= m
             /\ d < m => (b * 2 ^ a <= d /\ d <= b * 2 ^ a + b)
             /\ \E jitter \in 0..b :
                  d = IF b * 2 ^ a + jitter <= m THEN b * 2 ^ a + jitter ELSE m]_vars

C15_Witness ==
  \E o \in Ops :
    /\ ops[o].pc = "sleep"
    /\ ops[o].attempt = 2
    /\ heap[config].baseDelay = 100
    /\ heap[config].maxDelay = 50
    /\ ops[o].delay = 50

\* C16: an operation resolves only with the value of an attempt that
\* succeeded, and otherwise rejects with the error its last attempt threw
C16_ErrorsPropagateUnchanged ==
  \A o \in Ops :
    /\ ops[o].pc = "ok"
       => (ops[o].calls > 0 /\ ops[o].settled = ops[o].prim /\ ops[o].prim \in Values)
    /\ ops[o].pc = "failed"
       => (ops[o].calls > 0 /\ ops[o].settled = ops[o].prim /\ ops[o].prim \in Errors)

\* C17: in every reachable state the live configuration has
\* baseDelay <= maxDelay
C17_BaseDelayAtMostMaxDelay == heap[config].baseDelay <= heap[config].maxDelay

\* C18: whatever the notification sink does, an attempt that fails with a
\* descriptor error while retries are left is followed by the backoff and the
\* next attempt, and no operation ever settles with an error of the sink
C18_NotificationIsAdvisory ==
  [][\A o \in Ops :
       /\ (/\ ops[o].pc = "io"
           /\ ops'[o] # ops[o]
           /\ ops'[o].prim \in {"ENFILE", "EMFILE"}
           /\ ops[o].attempt < heap[config].maxRetries)
          => ops'[o].pc = "sleep"
       /\ ops'[o].settled # SinkError]_vars

\* C19: a call of joinPath or resolvePath succeeds, also for a path the
\* validator rejects, and leaves the configuration, the limiter, its counts
\* and queue and every operation as they were
C19_HelpersArePure ==
  [][lastCall'.name \in {"joinPath", "resolvePath"}
     => (/\ lastCall'.outcome = "ok"
         /\ UNCHANGED <<heap, config, snap, fsLimit, limiters, ops, submitted,
                        admitted>>)]_vars

C19_Witness ==
  /\ lastCall.name = "joinPath"
  /\ lastCall.outcome = "ok"
  /\ ~validatePath(lastCall.result).ok
  /\ Live.concurrency = 1
  /\ getActiveOperations = 1
  /\ getPendingOperations = 1

\* C20: initially the configuration is maxConcurrency=100, maxRetries=3,
\* baseDelay=100, maxDelay=5000 and nothing is active or pending; the
\* configuration changes only in a configure call, and while no operation has
\* been issued nothing is active or pending
C20_InitialDefaults ==
  /\ heap[config] = [maxConcurrency |-> 100, maxRetries |-> 3,
                     baseDelay |-> 100, maxDelay |-> 5000]
  /\ limiters[fsLimit].concurrency = 100
  /\ limiters[fsLimit].activeCount = 0
  /\ Len(limiters[fsLimit].queue) = 0
  /\ [][/\ lastCall'.name # "configure" => heap'[config'] = heap[config]
        /\ (\A o \in Ops : ops'[o].pc = "idle")
           => (/\ limiters'[fsLimit'].activeCount = 0
               /\ Len(limiters'[fsLimit'].queue) = 0)]_vars

C20_Witness ==
  /\ lastCall = NoCall
  /\ \A o \in Ops : ops[o].pc = "idle"
  /\ heap[config] = [maxConcurrency |-> 100, maxRetries |-> 3,
                     baseDelay |-> 100, maxDelay |-> 5000]
  /\ getActiveOperations = 0
  /\ getPendingOperations = 0

\* C21: when an operation completes (success, non-retryable error or retries
\* exhausted) its limiter either hands the slot to the head of its queue,
\* which starts its first attempt in the same step, or, with an empty queue,
\* counts one active operation less; and when no submitted operation is left
\* unfinished the live limiter has nothing active and nothing pending
C21_AllDone ==
  (\A o \in Ops : ops[o].pc \notin {"queued", "io", "sleep"})
    => (limiters[fsLimit].activeCount = 0 /\ Len(limiters[fsLimit].queue) = 0)

C21_SlotReleasedOnCompletion ==
  /\ C21_AllDone
  /\ [][/\ C21_AllDone'
        /\ \A o \in Ops :
             (ops[o].pc \in {"io", "sleep"} /\ ops'[o].pc \in {"ok", "failed"})
             => LET l == ops[o].lim
                    q == limiters[l].queue
                IN IF Len(q) > 0
                   THEN /\ limiters'[l].activeCount = limiters[l].activeCount
                        /\ limiters'[l].queue = Tail(q)
                        /\ ops'[Head(q)].pc = "io"
                        /\ ops'[Head(q)].calls = 1
                        /\ admitted' = Append(admitted, Head(q))
                   ELSE /\ limiters'[l].activeCount = limiters[l].activeCount - 1
                        /\ limiters'[l].queue = <<>>
                        /\ admitted' = admitted]_vars

C21_Witness ==
  /\ Len(submitted) = 2
  /\ admitted = submitted
  /\ limiters[fsLimit].concurrency = 1
  /\ ops[submitted[1]].pc = "failed"
  /\ ops[submitted[1]].calls = 2
  /\ ops[submitted[2]].pc = "failed"
  /\ ops[submitted[2]].settled = "ENOENT"
  /\ getActiveOperations = 0
  /\ getPendingOperations = 0

\* C22: every limiter counts exactly the operations it admitted that have not
\* completed, whether they run an attempt or wait in backoff, and none of them
\* is in a queue; a step between attempts changes no limiter and admits
\* nobody; and an operation is admitted only when its limiter had a free slot
\* or another operation completed in that step
C22_Held(l) ==
  Cardinality({o \in Ops : ops[o].lim = l /\ ops[o].pc \in {"io", "sleep"}})

C22_SlotsMatch ==
  /\ \A l \in LimIds : limiters[l].activeCount = C22_Held(l)
  /\ \A o \in Ops : ops[o].pc \in {"io", "sleep"}
       => \A l \in LimIds : \A i \in 1..Len(limiters[l].queue) : limiters[l].queue[i] # o

C22_SlotHeldThroughBackoff ==
  /\ C22_SlotsMatch
  /\ [][/\ (limiters' # limiters \/ ops' # ops) => C22_SlotsMatch'
        /\ \A o \in Ops :
             (/\ ops'[o] # ops[o]
              /\ ops[o].pc \in {"io", "sleep"}
              /\ ops'[o].pc \in {"io", "sleep"})
             => (limiters' = limiters /\ admitted' = admitted)
        /\ admitted' # admitted
           => \/ C22_Held(fsLimit) < limiters[fsLimit].concurrency
              \/ \E o \in Ops : /\ ops[o].pc \in {"io", "sleep"}
                                /\ ops'[o].pc \in {"ok", "failed"}]_vars

C22_Witness ==
  /\ limiters[fsLimit].concurrency = 1
  /\ limiters[fsLimit].wake = 0
  /\ \E o \in Ops : ops[o].pc = "sleep" /\ ops[o].attempt = 1
  /\ getActiveOperations = 1
  /\ getPendingOperations = 1

\* C23: with an event loop that runs every admission check, settles every
\* attempt and fires every backoff timer, every submitted operation is
\* eventually admitted and eventually completes
C23_EverySubmittedCompletes ==
  \A o \in Ops :
    /\ (ops[o].pc = "queued") ~> (ops[o].pc \in {"io", "sleep", "ok", "failed"})
    /\ (ops[o].pc = "queued") ~> (ops[o].pc \in {"ok", "failed"})

C23_Witness ==
  /\ Len(submitted) = 2
  /\ admitted = submitted
  /\ limiters[fsLimit].concurrency = 1
  /\ ops[submitted[1]].pc = "failed"
  /\ ops[submitted[1]].calls = 4
  /\ ops[submitted[2]].pc = "ok"
  /\ ops[submitted[2]].calls = 2

\* C24: while some operation waits in backoff, every other admitted operation
\* can have its attempt succeed or fail and so complete, every other waiting
\* operation can have its timer fire, and the operation at the head of a queue
\* whose limiter has a free slot can be admitted
C24_BackoffDoesNotBlock ==
  \A o \in Ops :
    (\E q \in Ops \ {o} : ops[q].pc = "sleep")
    => /\ ops[o].pc = "io"
          => (/\ ENABLED PrimitiveSucceeds(o, "v1")
              /\ ENABLED PrimitiveFailsThrow(o, "ENOENT"))
       /\ ops[o].pc = "sleep" => ENABLED TimerFires(o)
       /\ (/\ ops[o].pc = "queued"
           /\ limiters[ops[o].lim].queue[1] = o
           /\ limiters[ops[o].lim].activeCount < limiters[ops[o].lim].concurrency)
          => ENABLED (AdmissionCheck(ops[o].lim) /\ ops'[o].pc = "io")

C24_Witness ==
  /\ limiters[fsLimit].concurrency = 2
  /\ Len(admitted) = 2
  /\ ops[admitted[1]].pc = "sleep"
  /\ ops[admitted[1]].attempt = 0
  /\ ops[admitted[2]].pc = "ok"
  /\ ops[admitted[2]].calls = 2

\* C25: a configureThrottling call whose argument has no maxConcurrency, or
\* the current one, succeeds whatever is active or pending, merges the
\* supplied fields, keeps the live limiter and leaves counts, queue and
\* operations unchanged
C25_SameConcurrencyNeverFails ==
  [][(/\ lastCall'.name = "configure"
      /\ \/ "maxConcurrency" \notin DOMAIN lastCall'.arg
         \/ lastCall'.arg["maxConcurrency"] = heap[config].maxConcurrency)
     => (/\ lastCall'.outcome = "ok"
         /\ \A f \in Fields :
              heap'[config'][f] = IF f \in DOMAIN lastCall'.arg
                                  THEN lastCall'.arg[f] ELSE heap[config][f]
         /\ UNCHANGED <<fsLimit, limiters, ops, submitted, admitted>>)]_vars

C25_Witness ==
  /\ lastCall.name = "configure"
  /\ lastCall.outcome = "ok"
  /\ DOMAIN lastCall.arg = {"maxConcurrency", "maxRetries"}
  /\ heap[config].maxRetries = 1
  /\ getActiveOperations = 1
  /\ getPendingOperations = 1

\* C26: an attempt j that fails with an error other than a descriptor error
\* ends the operation in that step: it rejects with that error, after j + 1
\* calls of the primitive and the j notifications of the attempts before, and
\* a failed operation never does anything again
C26_OtherErrorEndsLoop ==
  [][\A o \in Ops :
       /\ (/\ ops[o].pc = "io"
           /\ ops'[o] # ops[o]
           /\ ops'[o].prim \notin {"v1", "v2", "ENFILE", "EMFILE"})
          => (/\ ops'[o].pc = "failed"
              /\ ops'[o].settled = ops'[o].prim
              /\ ops'[o].calls = ops[o].attempt + 1
              /\ ops'[o].fdFails = ops[o].attempt
              /\ ops'[o].notes = ops[o].notes
              /\ Len(ops'[o].notes) = ops[o].attempt)
       /\ ops[o].pc = "failed" => ops'[o] = ops[o]]_vars

C26_Witness ==
  \E o \in Ops :
    /\ ops[o].pc = "failed"
    /\ ops[o].settled = "ENOENT"
    /\ ops[o].calls = 3
    /\ ops[o].fdFails = 2
    /\ ops[o].notes = <<0, 1>>
    /\ heap[config].maxRetries = 3

\* C27: each path of a submitted operation was handed to the validator once,
\* in the step of the call and so before the submission; no later step
\* validates anything; and every call of the primitive, first attempt or
\* retry, gets the paths the validator returned, which differ from the
\* caller's
C27_ValidatedOnce(op) ==
  op.pc \notin {"idle", "denied"}
  => /\ op.gate = op.raw
     /\ Len(op.args) = Len(op.raw)
     /\ \A i \in 1..Len(op.raw) : op.args[i] = validatePath(op.raw[i]).path
     /\ op.calls > 0
        => (/\ Len(op.passed) = Len(op.raw)
            /\ \A i \in 1..Len(op.raw) :
                 /\ op.passed[i] = validatePath(op.raw[i]).path
                 /\ op.passed[i] # op.raw[i])

C28_PrimitiveInvokedAtLeastOnce ==
  \A i \in 1..Len(submitted) :
    ops[submitted[i]].pc \in {"ok", "failed"} => ops[submitted[i]].calls >= 1

\* C29: activeCount plus pendingCount of the live limiter is the number of
\* operations that passed validation and have not completed, whether they
\* wait for admission, run an attempt or wait in backoff
C29_InFlightAccounting ==
  limiters[fsLimit].activeCount + Len(limiters[fsLimit].queue)
    = Cardinality({o \in Ops : ops[o].pc \in {"queued", "io", "sleep"}})

C29_Witness ==
  /\ \E o \in Ops : ops[o].pc = "sleep"
  /\ limiters[fsLimit].wake = 1
  /\ getActiveOperations = 1
  /\ getPendingOperations = 1
  /\ limiters[fsLimit].concurrency = 2

C31_TunablesReadLive ==
  [][\A o \in Ops :
       /\ (ops[o].pc = "sleep" /\ ops'[o] # ops[o])
          => IF ops[o].attempt >= heap[config].maxRetries
             THEN /\ ops'[o].pc = "failed"
                  /\ ops'[o].calls = ops[o].calls
                  /\ ops'[o].settled = ops[o].lastError
                  /\ ops[o].lastError = ops[o].prim
                  /\ ops'[o].notes = ops[o].notes
             ELSE /\ ops'[o].pc = "io"
                  /\ ops'[o].attempt = ops[o].attempt + 1
                  /\ ops'[o].calls = ops[o].calls + 1
       /\ (/\ ops[o].pc = "io"
           /\ ops'[o] # ops[o]
           /\ ops'[o].prim \in {"ENFILE", "EMFILE"})
          => IF ops[o].attempt < heap[config].maxRetries
             THEN /\ ops'[o].pc = "sleep"
                  /\ ops'[o].delay <= heap[config].maxDelay
             ELSE /\ ops'[o].pc = "failed"
                  /\ ops'[o].settled = ops'[o].prim]_vars

C31_Witness ==
  \E o \in Ops :
    /\ ops[o].pc = "failed"
    /\ ops[o].calls = 1
    /\ ops[o].attempt = 1
    /\ ops[o].notes = <<0>>
    /\ ops[o].settled = "EMFILE"
    /\ heap[config].maxRetries = 0

\* C32: with the configuration unchanged and baseDelay > 0, the delay computed
\* for attempt a + 1 is at least the delay computed for attempt a, whatever
\* the two jitter values are
C32_DelaysNonDecreasing ==
  [][(/\ lastCall.name = "calculateDelay"
      /\ lastCall'.name = "calculateDelay"
      /\ lastCall'.arg["attempt"] = lastCall.arg["attempt"] + 1
      /\ heap'[config'] = heap[config]
      /\ heap[config].baseDelay > 0)
     => lastCall'.result[1] >= lastCall.result[1]]_vars

C32_Witness ==
  /\ lastCall.name = "calculateDelay"
  /\ lastCall.arg["attempt"] = 1
  /\ lastCall.result = <<20>>
  /\ heap[config].baseDelay = 10
  /\ heap[config].maxDelay = 50

\* C33: admission does not look at paths: whenever a limiter with a free slot
\* runs an admission check, the head of its queue starts executing, whatever
\* paths it and the executing operations work on; and every executing
\* operation can be the next to complete, whatever the admission order was
C33_AdmissionIgnoresPath ==
  /\ \A l \in LimIds :
       (/\ limiters[l].wake > 0
        /\ Len(limiters[l].queue) > 0
        /\ limiters[l].activeCount < limiters[l].concurrency)
       => ENABLED (AdmissionCheck(l) /\ ops'[Head(limiters[l].queue)].pc = "io")
  /\ \A o \in DOMAIN ops : ops[o].pc = "io" => ENABLED PrimitiveSucceeds(o, "v1")

\* two operations on the same path were executing at the same time, and the
\* one admitted second has completed first
C33_Witness ==
  \E o, q \in DOMAIN ops :
    /\ admitted = <<o, q>>
    /\ ops[o].args = ops[q].args
    /\ ops[o].lim = fsLimit
    /\ ops[q].lim = fsLimit
    /\ ops[o].pc = "io"
    /\ ops[q].pc = "ok"
    /\ limiters[fsLimit].concurrency >= 2
    /\ heap[config].maxConcurrency >= 2

\* C34: configureThrottling(p) called again right after configureThrottling(p)
\* has the same outcome as the first call and leaves the configuration, the
\* live limiter, its capacity and its counts as the first call left them
C34_ConfigureIdempotent ==
  [][(/\ lastCall.name = "configure"
      /\ lastCall'.name = "configure"
      /\ lastCall'.arg = lastCall.arg)
     => (/\ lastCall'.outcome = lastCall.outcome
         /\ heap'[config'] = heap[config]
         /\ limiters'[fsLimit'].concurrency = limiters[fsLimit].concurrency
         /\ limiters'[fsLimit'] = limiters[fsLimit]
         /\ fsLimit' = fsLimit)]_vars

\* a call naming the capacity already in force succeeded with an operation in
\* flight: it repeats a setting made before
C34_Witness ==
  /\ lastCall.name = "configure"
  /\ lastCall.outcome = "ok"
  /\ DOMAIN lastCall.arg = Fields
  /\ \A f \in Fields : lastCall.arg[f] = heap[config][f]
  /\ limiters[fsLimit].concurrency = 2
  /\ getActiveOperations = 1

\* C35: a failed attempt is followed by a backoff only if the value thrown is
\* an object carrying the code ENFILE or EMFILE, and such a failure is
\* followed by a backoff whenever retries are left; an object with another
\* code, an Error without a code, a thrown string and null end the operation
\* in the step of the failure, with the value thrown and without notification
C35_ErrorClassification ==
  [][\A o \in Ops :
       (/\ ops[o].pc = "io"
        /\ ops'[o] # ops[o]
        /\ ops'[o].prim \notin {"v1", "v2"})
       => IF ops'[o].prim \in {"ENFILE", "EMFILE"}
          THEN /\ ops'[o].pc = "sleep" <=> ops[o].attempt < heap[config].maxRetries
               /\ ops'[o].fdFails = ops[o].fdFails + 1
          ELSE /\ ops'[o].prim \in {"ENOENT", "Error", "'EMFILE'", "null"}
               /\ ops'[o].pc = "failed"
               /\ ops'[o].settled = ops'[o].prim
               /\ ops'[o].notes = ops[o].notes
               /\ ops'[o].fdFails = ops[o].fdFails
               /\ ops'[o].delay = 0]_vars

\* a retried EMFILE was followed by a thrown string 'EMFILE', which ended the
\* operation with retries left
C35_Witness ==
  \E o \in Ops :
    /\ ops[o].pc = "failed"
    /\ ops[o].settled = "'EMFILE'"
    /\ ops[o].lastError = "'EMFILE'"
    /\ ops[o].calls = 2
    /\ ops[o].fdFails = 1
    /\ ops[o].notes = <<0>>
    /\ heap[config].maxRetries = 3

\* C36: a two-path operation hands its paths to the validator in the order of
\* its arguments. If the first path is rejected the call fails in that step
\* with the rejection of the first path, the second path has not been handed
\* to the validator and never is; if only the second is rejected, the first
\* was validated before it
C36_FirstPathFirst ==
  [][\A o \in DOMAIN ops :
       /\ (/\ ops[o].pc = "idle"
           /\ ops'[o].pc # "idle"
           /\ Len(ops'[o].raw) = 2
           /\ ~validatePath(ops'[o].raw[1]).ok)
          => (/\ ops'[o].pc = "denied"
              /\ ops'[o].settled = AccessDenied
              /\ ops'[o].rejected = 1
              /\ ops'[o].gate = <<ops'[o].raw[1]>>)
       /\ (/\ ops[o].pc = "idle"
           /\ ops'[o].pc # "idle"
           /\ Len(ops'[o].raw) = 2
           /\ validatePath(ops'[o].raw[1]).ok)
          => (/\ ops'[o].gate = ops'[o].raw
              /\ ops'[o].rejected = IF validatePath(ops'[o].raw[2]).ok THEN 0 ELSE 2)
       /\ ops[o].pc = "denied"
          => (ops'[o].gate = ops[o].gate /\ ops'[o].rejected = ops[o].rejected)]_vars

C36_Witness ==
  \E o \in DOMAIN ops :
    /\ ops[o].pc = "denied"
    /\ ops[o].raw = <<OutsidePath, InsidePath>>
    /\ ops[o].gate = <<OutsidePath>>
    /\ ops[o].rejected = 1
    /\ ops[o].settled = AccessDenied
====
